---- MODULE Spec2Model ----
(***************************************************************************)
(* Model of the Gemini API Terminal Explorer (src/services/geminiService.ts):*)
(* the App component's command dispatcher (handleKeyDown, executeCommand,  *)
(* handleFileChange) and the geminiService operations it calls.            *)
(*                                                                         *)
(* Strings are sequences of tokens.  An input line is a sequence of        *)
(* one-character tokens, so that trim/split/join/toLowerCase are computed  *)
(* as the code computes them; fixed messages are one token each.           *)
(* Every action is one synchronous segment of the code: from an event (a   *)
(* key press, a promise settling, a browser callback) to the next await or *)
(* to the return.                                                          *)
(***************************************************************************)
EXTENDS Integers, Sequences, FiniteSets, TLC

\* ------------------------------------------------------------------ bounds
\* Commands the user submits in one run.
MaxCommands == 4
\* Chunks one stream delivers at most.
MaxChunks == 2
\* Handles with done=false one video generation is given at most.
MaxPolls == 2
\* Of these, the commands that start an asynchronous operation, at most, in a
\* run whose commands can overlap (see AsyncBudget).
MaxAsync == 2

\* ------------------------------------------------------------ string model
Upper == <<"A","B","C","D","E","F","G","H","I","J","K","L","M",
           "N","O","P","Q","R","S","T","U","V","W","X","Y","Z">>
Lower == <<"a","b","c","d","e","f","g","h","i","j","k","l","m",
           "n","o","p","q","r","s","t","u","v","w","x","y","z">>

LowerOf == [c \in {Upper[k] : k \in 1..26} |-> Lower[CHOOSE k \in 1..26 : Upper[k] = c]]

\* String.prototype.toLowerCase
toLowerCase(s) ==
  [i \in 1..Len(s) |-> IF s[i] \in DOMAIN LowerOf THEN LowerOf[s[i]] ELSE s[i]]

WhiteSpace == {" ", "\t", "\n"}

RECURSIVE trimStart(_)
trimStart(s) ==
  IF s # <<>> /\ Head(s) \in WhiteSpace THEN trimStart(Tail(s)) ELSE s

RECURSIVE trimEnd(_)
trimEnd(s) ==
  IF s # <<>> /\ s[Len(s)] \in WhiteSpace THEN trimEnd(SubSeq(s, 1, Len(s) - 1)) ELSE s

\* String.prototype.trim
trim(s) == trimEnd(trimStart(s))

\* String.prototype.split(' '): every single space separates two fields
RECURSIVE split(_)
split(s) ==
  IF \E i \in 1..Len(s) : s[i] = " "
  THEN LET i == CHOOSE j \in 1..Len(s) : s[j] = " " /\ \A k \in 1..(j - 1) : s[k] # " "
       IN  <<SubSeq(s, 1, i - 1)>> \o split(SubSeq(s, i + 1, Len(s)))
  ELSE <<s>>

\* Array.prototype.join(' ')
RECURSIVE join(_)
join(ss) ==
  IF ss = <<>> THEN <<>>
  ELSE IF Len(ss) = 1 THEN ss[1]
  ELSE ss[1] \o <<" ">> \o join(Tail(ss))

\* String.prototype.includes
includes(s, needle) ==
  \E i \in 1..(Len(s) + 1 - Len(needle)) : SubSeq(s, i, i + Len(needle) - 1) = needle

\* const [command, ...args] = commandLine.trim().split(' ')
CommandOf(line) == Head(split(trim(line)))
\* const prompt = args.join(' ')
PromptOf(line) == join(Tail(split(trim(line))))

\* ------------------------------------------------------- command names
c_help == <<"h","e","l","p">>
c_clear == <<"c","l","e","a","r">>
c_text == <<"t","e","x","t">>
c_stream == <<"s","t","r","e","a","m">>
c_chat == <<"c","h","a","t">>
c_chat_reset == <<"c","h","a","t","-","r","e","s","e","t">>
c_json == <<"j","s","o","n">>
c_function_call == <<"f","u","n","c","t","i","o","n","-","c","a","l","l">>
c_search == <<"s","e","a","r","c","h">>
c_maps == <<"m","a","p","s">>
c_describe == <<"d","e","s","c","r","i","b","e">>
c_image == <<"i","m","a","g","e">>
c_video == <<"v","i","d","e","o">>

KnownCommands ==
  {c_help, c_clear, c_text, c_stream, c_chat, c_chat_reset, c_json,
   c_function_call, c_search, c_maps, c_describe, c_image, c_video}

\* ------------------------------------------------------------- messages
WELCOME_CONTENT ==
  <<"Welcome to the Gemini API Terminal Explorer. Type 'help' for a list of commands.">>
HELP_MESSAGE == <<"Gemini API Terminal Explorer. Available commands: ...">>
NoApiKeyMessage == <<"API_KEY environment variable not set.">>
ImageFailedMessage == <<"Image generation failed.">>
NoDownloadLinkMessage == <<"Video generation completed but no download link found.">>
EntityNotFound == <<"Requested entity was not found.">>
SelectValidKey == <<"select a valid key">>
InvalidKeyMessage == <<"API key is invalid or not found. Please ">> \o SelectValidKey \o <<".">>
GuidanceMessage == <<"Please try the 'video' command again to re-trigger API key selection.">>
DefaultDescribePrompt == <<"What is in this image?">>

\* new Error("Usage: text <prompt>") and the like, one per validated case
Usage(cmd) ==
  CASE cmd = c_text -> <<"Usage: text <prompt>">>
    [] cmd = c_stream -> <<"Usage: stream <prompt>">>
    [] cmd = c_chat -> <<"Usage: chat <message>">>
    [] cmd = c_function_call -> <<"Usage: function-call <prompt>">>
    [] cmd = c_search -> <<"Usage: search <query>">>
    [] cmd = c_maps -> <<"Usage: maps <query>">>
    [] cmd = c_image -> <<"Usage: image <prompt>">>
    [] cmd = c_video -> <<"Usage: video <prompt>">>

\* `Command not found: ${command}. Type 'help' for a list of commands.`
NotFoundMessage(command) ==
  <<"Command not found: ">> \o command \o <<". Type 'help' for a list of commands.">>

\* ---------------------------------------------------------- environment
\* process.env.API_KEY: absent, or a credential
NoKey == <<>>
Credentials == {<<"K">>}

\* What the external generative API and the browser can answer (one
\* synchronous segment of the code follows each answer).
TextReplies == {<<"reply">>}
ApiErrors == {<<"Quota exceeded.">>}
\* the video API can also fail for an unknown entity or key
VideoErrors == ApiErrors \cup {<<"404 ">> \o EntityNotFound}
\* the chunks a response stream delivers, in order (a longer stream repeats them)
Chunks == << <<"H","e","l">>, <<"l","o">> >>
ChunkAt(k) == Chunks[((k - 1) % Len(Chunks)) + 1]
\* response.text of the json call, and JSON.parse's view of it (<<>>: not JSON)
JsonReplies ==
  { [text |-> <<"[{\"recipeName\":\"A\"}]">>, parsed |-> <<"[", "{", "recipeName", "A", "}", "]">>],
    [text |-> <<"Sorry">>, parsed |-> <<>>] }
JsonSyntaxError == <<"Unexpected token S in JSON at position 0">>
\* response.functionCalls and response.text of the function-call call
FunctionReplies ==
  { [functionCalls |-> <<[name |-> <<"controlLight">>, args |-> <<"{\"brightness\":50}">>]>>,
     text |-> <<>>],
    [functionCalls |-> <<>>, text |-> <<"reply">>] }
\* response.text and the grounding chunks of a grounded call
GroundedReplies ==
  { [text |-> <<"reply">>, sources |-> <<[title |-> <<"T">>, uri |-> <<"https://t">>]>>],
    [text |-> <<"reply">>, sources |-> <<>>] }
\* response.generatedImages of the image call (the imageBytes of each)
ImageReplies == {<<<<"/9j/">>>>, <<>>}
\* operation handles of the video call
VideoUri == <<"https://host/vid?x=1">>
Handles ==
  { [done |-> FALSE, uri |-> <<>>],
    [done |-> TRUE, uri |-> VideoUri],
    [done |-> TRUE, uri |-> <<>>] }
\* position.coords, in units of 0.00001 degree
Positions == {[coords |-> [latitude |-> 3742216, longitude |-> -12208407]]}
GeoErrors == {<<"User denied Geolocation">>}
\* the files the user can pick: name, type and what FileReader.result holds
Files ==
  { [name |-> <<"cat.png">>, type |-> <<"image/png">>,
     result |-> <<"data:image/png;base64", ",", "QUJD">>] }

\* ------------------------------------------------------------ input lines
SP == <<" ">>
l_help == c_help
l_clear == c_clear
l_text == c_text \o SP \o <<"h","i">>
l_text_empty == c_text
l_stream == c_stream \o SP \o <<"p">>
l_stream_empty == c_stream
l_chat == c_chat \o SP \o <<"y","o">>
l_chat_empty == c_chat
l_chat_reset == c_chat_reset
l_json == c_json
l_function_call == c_function_call \o SP \o <<"d","i","m">>
l_function_call_empty == c_function_call
l_search == c_search \o SP \o <<"q">>
l_search_empty == c_search
l_maps == c_maps \o SP \o <<"q">>
l_maps_empty == c_maps
l_MAPS == <<"M","A","P","S">> \o SP \o <<"q">>
l_MAPS_empty == <<"M","a","p","s">>
l_describe == c_describe
l_describe_prompt == c_describe \o SP \o <<"c","a","t">>
l_DESCRIBE == <<"D","e","s","c","r","i","b","e">>
l_image == c_image \o SP \o <<"a">>
l_image_empty == c_image \o SP
l_video == c_video \o SP \o <<"v">>
l_video_empty == c_video
l_unknown == <<"f","r","o","b","n","i","c","a","t","e">>
\* lines whose separator is not one space: two spaces, a tab
l_text_spaces == c_text \o SP \o SP \o <<"h","i">>
l_text_tab == c_text \o <<"\t">> \o <<"h","i">>
l_unknown_tab == l_unknown \o <<"\t">> \o <<"x">>

\* The lines the user may type in one run: each run draws its lines from one session.
Sessions ==
  { {l_MAPS, l_stream, l_clear},
    {l_maps, l_maps_empty, l_MAPS_empty, l_text},
    {l_describe, l_describe_prompt, l_DESCRIBE, l_help},
    {l_chat, l_chat_reset, l_clear},
    {l_video, l_unknown},
    {l_text_empty, l_stream_empty, l_chat_empty, l_function_call_empty, l_search_empty,
     l_maps_empty, l_image_empty, l_video_empty},
    {l_json, l_function_call, l_unknown},
    {l_search, l_image, l_help},
    {l_text_spaces, l_text_tab, l_unknown_tab},
    {l_MAPS, l_video},
    {l_chat, l_video} }

\* executeCommand's command and prompt for each line a session holds
Parsed ==
  [line \in UNION Sessions |-> [command |-> CommandOf(line), prompt |-> PromptOf(line)]]
ParseCommand(line) == Parsed[line].command
ParsePrompt(line) == Parsed[line].prompt
\* what the switch statement compares: command.toLowerCase()
Switch == [line \in UNION Sessions |-> toLowerCase(CommandOf(line))]

\* ------------------------------------------------------------------ state
VARIABLES
  history,             \* useState<HistoryItem[]>: the log
  WELCOME_MESSAGE,     \* the module-level welcome object, shared by reference
  isLoading,           \* useState(false): the busy flag
  chatInstanceRef,     \* useRef<Chat | null>: 0 is null, n > 0 the n-th session created
  pendingFileCommand,  \* useState<{command, prompt} | null>
  fileDialog,          \* the browser's file chooser is open (opened by click())
  API_KEY,             \* process.env.API_KEY
  ops,                 \* the suspended continuations: id -> what each awaits
  submitted,           \* number of command lines executed so far
  commandLine,         \* the line of the latest executeCommand call
  chatsCreated,        \* number of startChat() calls that returned a session
  spawned,             \* number of commands that started an asynchronous operation
  finished,            \* the continuation that ended last: its locals and what it caught
  session              \* the lines the user types in this run

vars == <<history, WELCOME_MESSAGE, isLoading, chatInstanceRef, pendingFileCommand,
          fileDialog, API_KEY, ops, submitted, commandLine, chatsCreated, spawned,
          finished, session>>

NoPending == [command |-> <<>>, prompt |-> <<>>]
NoOperation == [done |-> FALSE, uri |-> <<>>]
NoFile == [name |-> <<>>, type |-> <<>>, result |-> <<>>]

\* The commands of a run that may start an asynchronous operation.  A command
\* can overlap another only after a line whose command differs from its
\* lower-cased form (finally compares the raw command, the switch the
\* lower-cased one); a run without such a line is sequential and is given one
\* asynchronous command more.
AsyncBudget ==
  IF \E line \in session : ParseCommand(line) # Switch[line]
  THEN MaxAsync
  ELSE MaxAsync + 1

\* A suspended continuation: pc names the call it awaits; the other fields are
\* the locals the continuation closes over.
Op(pc, command, prompt) ==
  [pc |-> pc, command |-> command, prompt |-> prompt,
   entry |-> 0,               \* stream: index of the Output entry it appended
   sent |-> <<>>,             \* stream: the chunks delivered so far, concatenated
   chunks |-> 0,              \* stream: number of chunks delivered
   chat |-> 0,                \* chat: the session the message was sent on
   operation |-> NoOperation, \* video: the operation handle
   cycles |-> 0,              \* video: sleeps finished
   fetches |-> 0,             \* video: re-fetches answered
   aistudio |-> FALSE,        \* video: window.aistudio was present
   hasKey |-> FALSE,          \* video: hasSelectedApiKey() answered true
   selected |-> FALSE,        \* video: openSelectKey() was awaited
   file |-> NoFile]           \* describe: the file being read

FreeId == CHOOSE i \in 1..(Cardinality(DOMAIN ops) + 1) : i \notin DOMAIN ops
Spawn(op) == [i \in DOMAIN ops \cup {FreeId} |-> IF i \in DOMAIN ops THEN ops[i] ELSE op]
Retire(t) == [i \in DOMAIN ops \ {t} |-> ops[i]]

Init ==
  /\ WELCOME_MESSAGE = [type |-> "system", content |-> WELCOME_CONTENT, id |-> 0]
  /\ history = <<WELCOME_MESSAGE>>
  /\ isLoading = FALSE
  /\ chatInstanceRef = 0
  /\ pendingFileCommand = NoPending
  /\ fileDialog = FALSE
  /\ API_KEY \in Credentials \cup {NoKey}
  /\ ops = <<>>
  /\ submitted = 0
  /\ commandLine = <<>>
  /\ chatsCreated = 0
  /\ spawned = 0
  /\ finished = [n |-> 0, op |-> Op("", <<>>, <<>>), error |-> <<>>]
  /\ session \in Sessions

\* ------------------------------------------------------------ history
\* addHistoryItem numbering the entries from 1 (id: prev.length + 1)
addHistoryItem_FromOne(h, type, content) ==
  Append(h, [type |-> type, content |-> content, id |-> Len(h) + 1])

\* setHistory(prev => [...prev, { type, content, id: prev.length }])
addHistoryItem(h, type, content) ==
  Append(h, [type |-> type, content |-> content, id |-> Len(h)])

\* updateLastHistoryItem with an updater that returns the chunk alone
updateLastHistoryItem_Replaces(h, chunk) ==
  IF Len(h) > 0
  THEN [h EXCEPT ![Len(h)].content = chunk]
  ELSE h

\* updateLastHistoryItem(prev => prev + chunk): the last item is updated in place
updateLastHistoryItem(h, chunk) ==
  IF Len(h) > 0
  THEN [h EXCEPT ![Len(h)].content = h[Len(h)].content \o chunk]
  ELSE h

\* executeCommand's catch block (every thrown value of the model is an Error)
Catch(h, message) ==
  LET h1 == addHistoryItem(h, "error", message)
  IN  IF includes(message, SelectValidKey)
      THEN addHistoryItem(h1, "system", GuidanceMessage)
      ELSE h1

\* executeCommand's finally block: the new value of isLoading
Finally(command, loading) ==
  IF command # c_maps /\ command # c_describe THEN FALSE ELSE loading

\* --------------------------------------------------------- executeCommand
\* handleKeyDown: Enter with isLoading false runs executeCommand(input).
\* The file chooser is modal: no key reaches the page while it is open.
handleKeyDown(line) ==
  /\ ~isLoading
  /\ ~fileDialog
  /\ submitted < MaxCommands
  /\ line \in session

\* history after addHistoryItem('command', commandLine)
Begun(line) == addHistoryItem(history, "command", line)

\* executeCommand returns (or throws into catch) without suspending
Return(line, h) ==
  /\ history' = h
  /\ isLoading' = Finally(ParseCommand(line), TRUE)
  /\ submitted' = submitted + 1
  /\ commandLine' = line
  /\ UNCHANGED <<WELCOME_MESSAGE, pendingFileCommand, fileDialog, API_KEY, ops, spawned,
                 finished, session>>

\* executeCommand suspends at an await, leaving the continuation op
Await(line, h, op) ==
  /\ spawned < AsyncBudget
  /\ history' = h
  /\ isLoading' = TRUE
  /\ ops' = Spawn(op)
  /\ spawned' = spawned + 1
  /\ submitted' = submitted + 1
  /\ commandLine' = line
  /\ UNCHANGED <<WELCOME_MESSAGE, pendingFileCommand, fileDialog, API_KEY, finished, session>>

\* the continuation t ends as op, having caught error (<<>>: none)
Ended(t, op, error) ==
  /\ ops' = Retire(t)
  /\ finished' = [n |-> finished.n + 1, op |-> op, error |-> error]

\* the continuation t runs its last segment and the command passes through
\* executeCommand's finally
Finish(t, op, error, h) ==
  /\ history' = h
  /\ isLoading' = Finally(op.command, isLoading)
  /\ Ended(t, op, error)
  /\ UNCHANGED <<WELCOME_MESSAGE, chatInstanceRef, pendingFileCommand, fileDialog,
                 submitted, commandLine, chatsCreated, spawned, session>>

\* the continuation t suspends again, as op
Suspend(t, op) ==
  /\ ops' = [ops EXCEPT ![t] = op]
  /\ UNCHANGED <<history, WELCOME_MESSAGE, isLoading, chatInstanceRef, pendingFileCommand,
                 fileDialog, submitted, commandLine, chatsCreated, spawned, finished,
                 session>>

CaseHelp(line) ==
  /\ handleKeyDown(line)
  /\ Switch[line] = c_help
  /\ Return(line, addHistoryItem(Begun(line), "system", HELP_MESSAGE))
  /\ UNCHANGED <<chatInstanceRef, chatsCreated>>

CaseClear(line) ==
  /\ handleKeyDown(line)
  /\ Switch[line] = c_clear
  /\ Return(line, <<WELCOME_MESSAGE>>)
  /\ UNCHANGED <<chatInstanceRef, chatsCreated>>

\* ValidatedCall without `if (!prompt) throw new Error("Usage: ...")`
ValidatedCall_Unchecked(line, cmd, pc) ==
  IF API_KEY = NoKey
  THEN Return(line, Catch(Begun(line), NoApiKeyMessage))
  ELSE Await(line, Begun(line), Op(pc, ParseCommand(line), ParsePrompt(line)))

\* a case that validates its argument, gets the client and awaits one API call
ValidatedCall(line, cmd, pc) ==
  IF ParsePrompt(line) = <<>>
  THEN Return(line, Catch(Begun(line), Usage(cmd)))
  ELSE IF API_KEY = NoKey
  THEN Return(line, Catch(Begun(line), NoApiKeyMessage))
  ELSE Await(line, Begun(line), Op(pc, ParseCommand(line), ParsePrompt(line)))

CaseText(line) ==
  /\ handleKeyDown(line)
  /\ Switch[line] = c_text
  /\ ValidatedCall(line, c_text, "generateText")
  /\ UNCHANGED <<chatInstanceRef, chatsCreated>>

TextResolve(t, text) ==
  /\ ops[t].pc = "generateText"
  /\ Finish(t, ops[t], <<>>, addHistoryItem(history, "output", text))
  /\ UNCHANGED API_KEY

CaseStream(line) ==
  /\ handleKeyDown(line)
  /\ Switch[line] = c_stream
  /\ LET h == addHistoryItem(Begun(line), "output", <<>>)
     IN  IF ParsePrompt(line) = <<>>
         THEN Return(line, Catch(Begun(line), Usage(c_stream)))
         ELSE IF API_KEY = NoKey
         THEN Return(line, Catch(h, NoApiKeyMessage))
         ELSE Await(line, h, [Op("generateTextStream", ParseCommand(line), ParsePrompt(line))
                                EXCEPT !.entry = Len(h)])
  /\ UNCHANGED <<chatInstanceRef, chatsCreated>>

\* for await (const chunk of responseStream) onChunk(chunk.text)
StreamChunk(t) ==
  /\ ops[t].pc = "generateTextStream"
  /\ ops[t].chunks < MaxChunks
  /\ history' = updateLastHistoryItem(history, ChunkAt(ops[t].chunks + 1))
  /\ WELCOME_MESSAGE' = IF Len(history) = 1 THEN history'[1] ELSE WELCOME_MESSAGE
  /\ ops' = [ops EXCEPT ![t].sent = @ \o ChunkAt(ops[t].chunks + 1), ![t].chunks = @ + 1]
  /\ UNCHANGED <<isLoading, chatInstanceRef, pendingFileCommand, fileDialog, API_KEY,
                 submitted, commandLine, chatsCreated, spawned, finished, session>>

StreamEnd(t) ==
  /\ ops[t].pc = "generateTextStream"
  /\ Finish(t, ops[t], <<>>, history)
  /\ UNCHANGED API_KEY

\* case 'chat' calling startChat for every message, whatever chatInstanceRef holds
CaseChat_AlwaysNew(line) ==
  /\ handleKeyDown(line)
  /\ Switch[line] = c_chat
  /\ IF ParsePrompt(line) = <<>>
     THEN /\ Return(line, Catch(Begun(line), Usage(c_chat)))
          /\ UNCHANGED <<chatInstanceRef, chatsCreated>>
     ELSE IF API_KEY = NoKey
     THEN /\ Return(line, Catch(Begun(line), NoApiKeyMessage))
          /\ UNCHANGED <<chatInstanceRef, chatsCreated>>
     ELSE /\ chatsCreated' = chatsCreated + 1
          /\ chatInstanceRef' = chatsCreated'
          /\ Await(line, addHistoryItem(Begun(line), "system", <<"New chat session started.">>),
                   [Op("continueChat", ParseCommand(line), ParsePrompt(line))
                      EXCEPT !.chat = chatsCreated'])

CaseChat(line) ==
  /\ handleKeyDown(line)
  /\ Switch[line] = c_chat
  /\ IF ParsePrompt(line) = <<>>
     THEN /\ Return(line, Catch(Begun(line), Usage(c_chat)))
          /\ UNCHANGED <<chatInstanceRef, chatsCreated>>
     ELSE IF chatInstanceRef = 0 /\ API_KEY = NoKey
     THEN /\ Return(line, Catch(Begun(line), NoApiKeyMessage))
          /\ UNCHANGED <<chatInstanceRef, chatsCreated>>
     ELSE IF chatInstanceRef = 0
     THEN /\ chatsCreated' = chatsCreated + 1
          /\ chatInstanceRef' = chatsCreated'
          /\ Await(line, addHistoryItem(Begun(line), "system", <<"New chat session started.">>),
                   [Op("continueChat", ParseCommand(line), ParsePrompt(line))
                      EXCEPT !.chat = chatsCreated'])
     ELSE /\ Await(line, Begun(line),
                   [Op("continueChat", ParseCommand(line), ParsePrompt(line))
                      EXCEPT !.chat = chatInstanceRef])
          /\ UNCHANGED <<chatInstanceRef, chatsCreated>>

ChatResolve(t, text) ==
  /\ ops[t].pc = "continueChat"
  /\ Finish(t, ops[t], <<>>, addHistoryItem(history, "output", text))
  /\ UNCHANGED API_KEY

\* case 'chat-reset' without `chatInstanceRef.current = null`
CaseChatReset_KeepsSession(line) ==
  /\ handleKeyDown(line)
  /\ Switch[line] = c_chat_reset
  /\ Return(line, addHistoryItem(Begun(line), "system", <<"Chat session reset.">>))
  /\ UNCHANGED <<chatInstanceRef, chatsCreated>>

CaseChatReset(line) ==
  /\ handleKeyDown(line)
  /\ Switch[line] = c_chat_reset
  /\ chatInstanceRef' = 0
  /\ Return(line, addHistoryItem(Begun(line), "system", <<"Chat session reset.">>))
  /\ UNCHANGED chatsCreated

CaseJson(line) ==
  /\ handleKeyDown(line)
  /\ Switch[line] = c_json
  /\ LET h == addHistoryItem(Begun(line), "system", <<"Requesting JSON response...">>)
     IN  IF API_KEY = NoKey
         THEN Return(line, Catch(h, NoApiKeyMessage))
         ELSE Await(line, h, Op("getJsonRecipes", ParseCommand(line), ParsePrompt(line)))
  /\ UNCHANGED <<chatInstanceRef, chatsCreated>>

\* JSON.stringify(JSON.parse(response.text), null, 2), shown in a <pre>
JsonResolve(t, reply) ==
  /\ ops[t].pc = "getJsonRecipes"
  /\ IF reply.parsed = <<>>
     THEN Finish(t, ops[t], JsonSyntaxError, Catch(history, JsonSyntaxError))
     ELSE Finish(t, ops[t], <<>>, addHistoryItem(history, "output",
                                   <<"<pre>">> \o reply.parsed \o <<"</pre>">>))
  /\ UNCHANGED API_KEY

CaseFunctionCall(line) ==
  /\ handleKeyDown(line)
  /\ Switch[line] = c_function_call
  /\ ValidatedCall(line, c_function_call, "demonstrateFunctionCalling")
  /\ UNCHANGED <<chatInstanceRef, chatsCreated>>

FunctionResolve(t, reply) ==
  /\ ops[t].pc = "demonstrateFunctionCalling"
  /\ Finish(t, ops[t], <<>>, addHistoryItem(history, "output",
       IF Len(reply.functionCalls) > 0
       THEN <<"Model requested to call function \"">> \o reply.functionCalls[1].name
              \o <<"\" with arguments: ">> \o reply.functionCalls[1].args \o <<".">>
       ELSE <<"Model did not request a function call. It responded: ">> \o reply.text))
  /\ UNCHANGED API_KEY

\* the fragment of a grounded answer: the text, then the list of sources
RECURSIVE Links(_)
Links(sources) ==
  IF sources = <<>> THEN <<>>
  ELSE <<"<li>">> \o Head(sources).uri \o Head(sources).title \o Links(Tail(sources))

Grounded(reply, heading) ==
  reply.text \o (IF Len(reply.sources) > 0 THEN heading \o Links(reply.sources) ELSE <<>>)

CaseSearch(line) ==
  /\ handleKeyDown(line)
  /\ Switch[line] = c_search
  /\ ValidatedCall(line, c_search, "searchWithGoogle")
  /\ UNCHANGED <<chatInstanceRef, chatsCreated>>

SearchResolve(t, reply) ==
  /\ ops[t].pc = "searchWithGoogle"
  /\ Finish(t, ops[t], <<>>, addHistoryItem(history, "output", Grounded(reply, <<"Sources:">>)))
  /\ UNCHANGED API_KEY

CaseImage(line) ==
  /\ handleKeyDown(line)
  /\ Switch[line] = c_image
  /\ ValidatedCall(line, c_image, "generateImage")
  /\ UNCHANGED <<chatInstanceRef, chatsCreated>>

ImageResolve(t, generatedImages) ==
  /\ ops[t].pc = "generateImage"
  /\ IF Len(generatedImages) > 0
     THEN Finish(t, ops[t], <<>>, addHistoryItem(history, "output",
                                   <<"data:image/jpeg;base64,">> \o generatedImages[1]))
     ELSE Finish(t, ops[t], ImageFailedMessage, Catch(history, ImageFailedMessage))
  /\ UNCHANGED API_KEY

\* the default case appending nothing
CaseDefault_Silent(line) ==
  /\ handleKeyDown(line)
  /\ Switch[line] \notin KnownCommands
  /\ Return(line, Begun(line))
  /\ UNCHANGED <<chatInstanceRef, chatsCreated>>

CaseDefault(line) ==
  /\ handleKeyDown(line)
  /\ Switch[line] \notin KnownCommands
  /\ Return(line, addHistoryItem(Begun(line), "error", NotFoundMessage(ParseCommand(line))))
  /\ UNCHANGED <<chatInstanceRef, chatsCreated>>

\* an awaited API call rejects and the error reaches executeCommand's catch
ApiReject(t, error) ==
  /\ ops[t].pc \in {"generateText", "generateTextStream", "continueChat", "getJsonRecipes",
                    "demonstrateFunctionCalling", "searchWithGoogle", "generateImage"}
  /\ Finish(t, ops[t], error, Catch(history, error))
  /\ UNCHANGED API_KEY

\* ------------------------------------------------------------------ maps
Digits == <<"0","1","2","3","4","5","6","7","8","9">>

RECURSIVE NatToString(_)
NatToString(n) ==
  IF n < 10 THEN <<Digits[n + 1]>> ELSE NatToString(n \div 10) \o <<Digits[(n % 10) + 1]>>

\* Number.prototype.toFixed(4) of x/100000: rounded to four decimals
toFixed4(x) ==
  LET a == IF x < 0 THEN 0 - x ELSE x
      r == (a + 5) \div 10
      f == r % 10000
  IN  (IF x < 0 /\ r > 0 THEN <<"-">> ELSE <<>>)
        \o NatToString(r \div 10000) \o <<".">>
        \o <<Digits[(f \div 1000) + 1], Digits[((f \div 100) % 10) + 1],
             Digits[((f \div 10) % 10) + 1], Digits[(f % 10) + 1]>>

\* `Location found: ${latitude.toFixed(4)}, ${longitude.toFixed(4)}`
LocationFound(coords) ==
  <<"Location found: ">> \o toFixed4(coords.latitude) \o <<", ">> \o toFixed4(coords.longitude)

\* case 'maps': the geolocation request is left pending and the case returns
CaseMaps(line) ==
  /\ handleKeyDown(line)
  /\ Switch[line] = c_maps
  /\ IF ParsePrompt(line) = <<>>
     THEN Return(line, Catch(Begun(line), Usage(c_maps)))
     ELSE /\ spawned < AsyncBudget
          /\ history' = addHistoryItem(Begun(line), "system", <<"Requesting geolocation...">>)
          /\ ops' = Spawn(Op("getCurrentPosition", ParseCommand(line), ParsePrompt(line)))
          /\ isLoading' = Finally(ParseCommand(line), TRUE)
          /\ spawned' = spawned + 1
          /\ submitted' = submitted + 1
          /\ commandLine' = line
          /\ UNCHANGED <<WELCOME_MESSAGE, pendingFileCommand, fileDialog, API_KEY, finished,
                         session>>
  /\ UNCHANGED <<chatInstanceRef, chatsCreated>>

\* getCurrentPosition's success callback, up to its await of searchWithMaps; a
\* throw in the callback is an unhandled rejection
GeoSuccess(t, position) ==
  /\ ops[t].pc = "getCurrentPosition"
  /\ history' = addHistoryItem(history, "system", LocationFound(position.coords))
  /\ IF API_KEY = NoKey
     THEN Ended(t, ops[t], NoApiKeyMessage)
     ELSE /\ ops' = [ops EXCEPT ![t].pc = "searchWithMaps"]
          /\ UNCHANGED finished
  /\ UNCHANGED <<WELCOME_MESSAGE, isLoading, chatInstanceRef, pendingFileCommand, fileDialog,
                 API_KEY, submitted, commandLine, chatsCreated, spawned, session>>

\* the rest of the success callback
MapsResolve(t, reply) ==
  /\ ops[t].pc = "searchWithMaps"
  /\ history' = addHistoryItem(history, "output", Grounded(reply, <<"Places Mentioned:">>))
  /\ isLoading' = FALSE
  /\ Ended(t, ops[t], <<>>)
  /\ UNCHANGED <<WELCOME_MESSAGE, chatInstanceRef, pendingFileCommand, fileDialog, API_KEY,
                 submitted, commandLine, chatsCreated, spawned, session>>

\* searchWithMaps rejects inside the success callback: nothing catches it
MapsReject(t, error) ==
  /\ ops[t].pc = "searchWithMaps"
  /\ Ended(t, ops[t], error)
  /\ UNCHANGED <<history, WELCOME_MESSAGE, isLoading, chatInstanceRef, pendingFileCommand,
                 fileDialog, API_KEY, submitted, commandLine, chatsCreated, spawned, session>>

\* getCurrentPosition's error callback going on to the grounded search
GeoError_Searches(t, error) ==
  /\ ops[t].pc = "getCurrentPosition"
  /\ history' = addHistoryItem(history, "error", <<"Geolocation failed: ">> \o error)
  /\ isLoading' = FALSE
  /\ ops' = [ops EXCEPT ![t].pc = "searchWithMaps"]
  /\ UNCHANGED <<WELCOME_MESSAGE, chatInstanceRef, pendingFileCommand, fileDialog, API_KEY,
                 submitted, commandLine, chatsCreated, spawned, finished, session>>

\* getCurrentPosition's error callback
GeoError(t, error) ==
  /\ ops[t].pc = "getCurrentPosition"
  /\ history' = addHistoryItem(history, "error", <<"Geolocation failed: ">> \o error)
  /\ isLoading' = FALSE
  /\ Ended(t, ops[t], error)
  /\ UNCHANGED <<WELCOME_MESSAGE, chatInstanceRef, pendingFileCommand, fileDialog, API_KEY,
                 submitted, commandLine, chatsCreated, spawned, session>>

\* -------------------------------------------------------------- describe
\* case 'describe': the file chooser is opened and the case returns
CaseDescribe(line) ==
  /\ handleKeyDown(line)
  /\ Switch[line] = c_describe
  /\ spawned < AsyncBudget
  /\ pendingFileCommand' =
       [command |-> c_describe,
        prompt |-> IF ParsePrompt(line) = <<>> THEN DefaultDescribePrompt ELSE ParsePrompt(line)]
  /\ fileDialog' = TRUE
  /\ history' = addHistoryItem(Begun(line), "system",
                               <<"Please select an image file to describe.">>)
  /\ isLoading' = Finally(ParseCommand(line), TRUE)
  /\ spawned' = spawned + 1
  /\ submitted' = submitted + 1
  /\ commandLine' = line
  /\ UNCHANGED <<WELCOME_MESSAGE, chatInstanceRef, API_KEY, ops, chatsCreated, finished,
                 session>>

\* the user closes the file chooser without a file: no change event
FileCancel ==
  /\ fileDialog
  /\ fileDialog' = FALSE
  /\ UNCHANGED <<history, WELCOME_MESSAGE, isLoading, chatInstanceRef, pendingFileCommand,
                 API_KEY, ops, submitted, commandLine, chatsCreated, spawned, finished,
                 session>>

\* handleFileChange: the change event of the file input; with a pending command
\* the file is handed to a FileReader
handleFileChange(file) ==
  /\ fileDialog
  /\ fileDialog' = FALSE
  /\ ops' = IF pendingFileCommand # NoPending
            THEN Spawn([Op("readAsDataURL", pendingFileCommand.command,
                           pendingFileCommand.prompt) EXCEPT !.file = file])
            ELSE ops
  /\ UNCHANGED <<history, WELCOME_MESSAGE, isLoading, chatInstanceRef, pendingFileCommand,
                 API_KEY, submitted, commandLine, chatsCreated, spawned, finished, session>>

\* (reader.result as string).split(',')[1]
Base64Of(result) ==
  LET i == CHOOSE j \in 1..Len(result) : result[j] = "," /\ \A k \in 1..(j - 1) : result[k] # ","
  IN  SubSeq(result, i + 1, Len(result))

\* reader.onloadend, up to its await of describeImage
ReaderLoadEnd(t) ==
  /\ ops[t].pc = "readAsDataURL"
  /\ LET h == addHistoryItem(history, "system",
                             <<"Describing image: ">> \o ops[t].file.name \o <<"...">>)
     IN  IF API_KEY = NoKey
         THEN /\ history' = addHistoryItem(h, "error", NoApiKeyMessage)
              /\ isLoading' = FALSE
              /\ pendingFileCommand' = NoPending
              /\ Ended(t, ops[t], NoApiKeyMessage)
         ELSE /\ history' = h
              /\ isLoading' = TRUE
              /\ ops' = [ops EXCEPT ![t].pc = "describeImage",
                                    ![t].sent = Base64Of(ops[t].file.result)]
              /\ UNCHANGED <<pendingFileCommand, finished>>
  /\ UNCHANGED <<WELCOME_MESSAGE, chatInstanceRef, fileDialog, API_KEY, submitted,
                 commandLine, chatsCreated, spawned, session>>

\* the rest of reader.onloadend: try / catch / finally
DescribeSettle(t, type, content, error) ==
  /\ ops[t].pc = "describeImage"
  /\ history' = addHistoryItem(history, type, content)
  /\ isLoading' = FALSE
  /\ pendingFileCommand' = NoPending
  /\ Ended(t, ops[t], error)
  /\ UNCHANGED <<WELCOME_MESSAGE, chatInstanceRef, fileDialog, API_KEY, submitted,
                 commandLine, chatsCreated, spawned, session>>

DescribeResolve(t, text) == DescribeSettle(t, "output", text, <<>>)
DescribeReject(t, error) == DescribeSettle(t, "error", error, error)

\* ----------------------------------------------------------------- video
\* generateVideo's catch rethrowing every error as it is
VideoCatch_Unchanged(message) == message

\* generateVideo's catch: a "not found" failure becomes the invalid-key error
VideoCatch(message) ==
  IF includes(message, EntityNotFound) THEN InvalidKeyMessage ELSE message

\* const ai = getClient() with the key as it is now, then the await of
\* ai.models.generateVideos
VideoSubmit(t, op, key) ==
  IF key = NoKey
  THEN Finish(t, op, NoApiKeyMessage, Catch(history, NoApiKeyMessage))
  ELSE Suspend(t, [op EXCEPT !.pc = "generateVideos"])

\* case 'video', up to the first await of generateVideo; window.aistudio is
\* present or not
CaseVideo(line) ==
  /\ handleKeyDown(line)
  /\ Switch[line] = c_video
  /\ LET h == addHistoryItem(Begun(line), "system",
                <<"Starting video generation... This can take several minutes. Polling for status every 10 seconds.">>)
     IN  IF ParsePrompt(line) = <<>>
         THEN Return(line, Catch(Begun(line), Usage(c_video)))
         ELSE \E aistudio \in BOOLEAN :
                IF aistudio
                THEN Await(line, h, [Op("hasSelectedApiKey", ParseCommand(line), ParsePrompt(line))
                                       EXCEPT !.aistudio = TRUE])
                ELSE IF API_KEY = NoKey
                THEN Return(line, Catch(h, NoApiKeyMessage))
                ELSE Await(line, h, Op("generateVideos", ParseCommand(line), ParsePrompt(line)))
  /\ UNCHANGED <<chatInstanceRef, chatsCreated>>

\* hasSelectedApiKey() answers and the submission follows, whatever the answer
VideoHasKey_Submits(t, has) ==
  /\ ops[t].pc = "hasSelectedApiKey"
  /\ UNCHANGED API_KEY
  /\ VideoSubmit(t, [ops[t] EXCEPT !.hasKey = has], API_KEY)

\* window.aistudio.hasSelectedApiKey() answers
VideoHasKey(t, has) ==
  /\ ops[t].pc = "hasSelectedApiKey"
  /\ UNCHANGED API_KEY
  /\ IF has
     THEN VideoSubmit(t, [ops[t] EXCEPT !.hasKey = TRUE], API_KEY)
     ELSE Suspend(t, [ops[t] EXCEPT !.pc = "openSelectKey"])

\* window.aistudio.openSelectKey() completes: the user picked a key or none
VideoKeySelected(t, key) ==
  /\ ops[t].pc = "openSelectKey"
  /\ API_KEY' = key
  /\ VideoSubmit(t, [ops[t] EXCEPT !.selected = TRUE], key)

\* the polling loop returning the download link without the key parameter
VideoLoop_BareUri(t, op) ==
  IF ~op.operation.done
  THEN Suspend(t, [op EXCEPT !.pc = "setTimeout"])
  ELSE IF op.operation.uri # <<>>
  THEN Finish(t, op, <<>>, addHistoryItem(history, "output", op.operation.uri))
  ELSE Finish(t, op, NoDownloadLinkMessage, Catch(history, VideoCatch(NoDownloadLinkMessage)))

\* the polling loop from its test of operation.done to the next await or the return
VideoLoop(t, op) ==
  IF ~op.operation.done
  THEN Suspend(t, [op EXCEPT !.pc = "setTimeout"])
  ELSE IF op.operation.uri # <<>>
  THEN Finish(t, op, <<>>,
              addHistoryItem(history, "output", op.operation.uri \o <<"&key=">> \o API_KEY))
  ELSE Finish(t, op, NoDownloadLinkMessage, Catch(history, VideoCatch(NoDownloadLinkMessage)))

\* ai.models.generateVideos answers with an operation handle
VideoSubmitted(t, handle) ==
  /\ ops[t].pc = "generateVideos"
  /\ handle.done \/ ops[t].cycles < MaxPolls
  /\ VideoLoop(t, [ops[t] EXCEPT !.operation = handle])
  /\ UNCHANGED API_KEY

\* the 10 second sleep ends and the handle is fetched again
VideoSleep(t) ==
  /\ ops[t].pc = "setTimeout"
  /\ Suspend(t, [ops[t] EXCEPT !.pc = "getVideosOperation", !.cycles = @ + 1])
  /\ UNCHANGED API_KEY

\* ai.operations.getVideosOperation answers
VideoPolled(t, handle) ==
  /\ ops[t].pc = "getVideosOperation"
  /\ handle.done \/ ops[t].cycles < MaxPolls
  /\ VideoLoop(t, [ops[t] EXCEPT !.operation = handle, !.fetches = @ + 1])
  /\ UNCHANGED API_KEY

\* the submission or a re-fetch rejects
VideoReject(t, error) ==
  /\ ops[t].pc \in {"generateVideos", "getVideosOperation"}
  /\ Finish(t, ops[t], error, Catch(history, VideoCatch(error)))
  /\ UNCHANGED API_KEY

Next ==
  \/ \E line \in session : CaseHelp(line)
  \/ \E line \in session : CaseClear(line)
  \/ \E line \in session : CaseText(line)
  \/ \E line \in session : CaseStream(line)
  \/ \E line \in session : CaseChat(line)
  \/ \E line \in session : CaseChatReset(line)
  \/ \E line \in session : CaseJson(line)
  \/ \E line \in session : CaseFunctionCall(line)
  \/ \E line \in session : CaseSearch(line)
  \/ \E line \in session : CaseMaps(line)
  \/ \E line \in session : CaseDescribe(line)
  \/ \E line \in session : CaseImage(line)
  \/ \E line \in session : CaseVideo(line)
  \/ \E line \in session : CaseDefault(line)
  \/ \E t \in DOMAIN ops, text \in TextReplies : TextResolve(t, text)
  \/ \E t \in DOMAIN ops : StreamChunk(t)
  \/ \E t \in DOMAIN ops : StreamEnd(t)
  \/ \E t \in DOMAIN ops, text \in TextReplies : ChatResolve(t, text)
  \/ \E t \in DOMAIN ops, reply \in JsonReplies : JsonResolve(t, reply)
  \/ \E t \in DOMAIN ops, reply \in FunctionReplies : FunctionResolve(t, reply)
  \/ \E t \in DOMAIN ops, reply \in GroundedReplies : SearchResolve(t, reply)
  \/ \E t \in DOMAIN ops, images \in ImageReplies : ImageResolve(t, images)
  \/ \E t \in DOMAIN ops, error \in ApiErrors : ApiReject(t, error)
  \/ \E t \in DOMAIN ops, position \in Positions : GeoSuccess(t, position)
  \/ \E t \in DOMAIN ops, error \in GeoErrors : GeoError(t, error)
  \/ \E t \in DOMAIN ops, reply \in GroundedReplies : MapsResolve(t, reply)
  \/ \E t \in DOMAIN ops, error \in ApiErrors : MapsReject(t, error)
  \/ FileCancel
  \/ \E file \in Files : handleFileChange(file)
  \/ \E t \in DOMAIN ops : ReaderLoadEnd(t)
  \/ \E t \in DOMAIN ops, text \in TextReplies : DescribeResolve(t, text)
  \/ \E t \in DOMAIN ops, error \in ApiErrors : DescribeReject(t, error)
  \/ \E t \in DOMAIN ops, has \in BOOLEAN : VideoHasKey(t, has)
  \/ \E t \in DOMAIN ops, key \in Credentials \cup {NoKey} : VideoKeySelected(t, key)
  \/ \E t \in DOMAIN ops, handle \in Handles : VideoSubmitted(t, handle)
  \/ \E t \in DOMAIN ops : VideoSleep(t)
  \/ \E t \in DOMAIN ops, handle \in Handles : VideoPolled(t, handle)
  \/ \E t \in DOMAIN ops, error \in VideoErrors : VideoReject(t, error)

Spec == Init /\ [][Next]_vars

\* ------------------------------------------------------------ properties
\* The step is one executeCommand call, of the line commandLine'.
Executed == submitted' = submitted + 1

\* The line dispatches to a case that leaves through `return` with a callback pending.
Deferred(line) ==
  \/ Switch[line] = c_maps /\ ParsePrompt(line) # <<>>
  \/ Switch[line] = c_describe

\* A geolocation lookup, a file selection or the processing of either is pending.
CallbackPending ==
  \/ \E t \in DOMAIN ops :
       ops[t].pc \in {"getCurrentPosition", "searchWithMaps", "readAsDataURL", "describeImage"}
  \/ pendingFileCommand # NoPending
  \/ fileDialog

\* The step appends to the log, and the first entry it appends is entry.
Appends(entry) ==
  /\ Len(history') > Len(history)
  /\ SubSeq(history', 1, Len(history)) = history
  /\ history'[Len(history) + 1] = entry

\* The step appends exactly one Error entry, first, with this content.
OneErrorAppended(content) ==
  /\ Appends([type |-> "error", content |-> content, id |-> Len(history)])
  /\ \A i \in (Len(history) + 2)..Len(history') : history'[i].type # "error"

VideoCalls == {"generateVideos", "getVideosOperation"}

\* C1: In every reachable state at most one command's operation is in flight, and
\* busy is true whenever an operation started by an earlier command (an API call,
\* a stream, a polling loop, a geolocation lookup, a file selection or the
\* processing of the file) has not yet finished.
C1_SingleFlight ==
  /\ Cardinality(DOMAIN ops) <= 1
  /\ (DOMAIN ops # {} \/ fileDialog) => isLoading

\* C2: For every line that dispatches to maps with a query or to describe, in any
\* letter case, busy is true when executeCommand returns and stays true while the
\* geolocation callback or the file selection and processing is outstanding.
C2_BusyUntilCallback ==
  [][/\ (Executed /\ Deferred(commandLine')) => isLoading'
     /\ CallbackPending' => isLoading']_vars

\* C3: For every command that completes or throws on the synchronous path, the
\* required-argument commands with an empty argument among them, busy is false
\* once executeCommand has returned.
C3_BusyClearedOnReturn ==
  [][(Executed /\ ~Deferred(commandLine') /\ ops' = ops) => ~isLoading']_vars

\* C4: For every operation, when its external API call fails, exactly one Error
\* entry carrying the error's message (for video: the reclassified message) is
\* appended and busy becomes false, also inside the geolocation success callback.
C4_ApiFailureCaught ==
  [][(/\ finished'.n = finished.n + 1
      /\ finished'.error \in VideoErrors
      /\ finished'.op.pc # "getCurrentPosition")
     => /\ OneErrorAppended(
             IF finished'.op.pc \in VideoCalls /\ includes(finished'.error, EntityNotFound)
             THEN <<"API key is invalid or not found. Please ", "select a valid key", ".">>
             ELSE finished'.error)
        /\ ~isLoading']_vars

RequiredArgument ==
  {c_text, c_stream, c_chat, c_function_call, c_search, c_maps, c_image, c_video}

UsageLiteral(cmd) ==
  CASE cmd = c_text -> "Usage: text <prompt>"
    [] cmd = c_stream -> "Usage: stream <prompt>"
    [] cmd = c_chat -> "Usage: chat <message>"
    [] cmd = c_function_call -> "Usage: function-call <prompt>"
    [] cmd = c_search -> "Usage: search <query>"
    [] cmd = c_maps -> "Usage: maps <query>"
    [] cmd = c_image -> "Usage: image <prompt>"
    [] cmd = c_video -> "Usage: video <prompt>"

\* C5: A required-argument command with an empty argument appends, after its
\* Command entry, exactly one Error entry holding the command's usage string, and
\* calls nothing: no continuation is left, no chat session is created, no
\* geolocation or file request is made.
C5_UsageError ==
  [][(Executed /\ Switch[commandLine'] \in RequiredArgument /\ ParsePrompt(commandLine') = <<>>)
     => /\ history' = history \o
             << [type |-> "command", content |-> commandLine', id |-> Len(history)],
                [type |-> "error", content |-> <<UsageLiteral(Switch[commandLine'])>>,
                 id |-> Len(history) + 1] >>
        /\ ops' = ops
        /\ spawned' = spawned
        /\ chatInstanceRef' = chatInstanceRef
        /\ chatsCreated' = chatsCreated
        /\ fileDialog' = fileDialog]_vars

\* a chat command with no message has just been refused with its usage string
C5_Witness ==
  /\ commandLine = l_chat_empty
  /\ history[Len(history)].type = "error"
  /\ history[Len(history)].content = <<"Usage: chat <message>">>
  /\ chatsCreated = 0
  /\ ops = <<>>

\* C6: While a stream command runs, and so when it ends, the Output entry it
\* created holds exactly the chunks delivered so far, in arrival order.
C6_ChunksInOwnEntry ==
  \A t \in DOMAIN ops :
    ops[t].pc = "generateTextStream" =>
      /\ ops[t].entry <= Len(history)
      /\ history[ops[t].entry].type = "output"
      /\ history[ops[t].entry].content = ops[t].sent

\* C7: Executing clear leaves a history of exactly one entry, identical in type,
\* id and content to the initial welcome entry, and starts no operation.
C7_ClearRestoresWelcome ==
  [][(Executed /\ Switch[commandLine'] = c_clear)
     => /\ history' = <<[type |-> "system", content |-> WELCOME_CONTENT, id |-> 0]>>
        /\ ops' = ops]_vars

\* C8: generateVideo sleeps and re-fetches only while the handle is not done, one
\* re-fetch per sleep; when the handle is done after n re-fetches it has slept n
\* times, and it returns the handle's URI with "&key=<credential>" appended, or
\* fails with the no-download-link error when the done handle has no URI.
C8_VideoPolling ==
  [][/\ \A t \in DOMAIN ops' :
          ops'[t].pc \in {"setTimeout", "getVideosOperation"} =>
            /\ ~ops'[t].operation.done
            /\ ops'[t].cycles = ops'[t].fetches + (IF ops'[t].pc = "setTimeout" THEN 0 ELSE 1)
     /\ (finished'.n = finished.n + 1 /\ finished'.op.operation.done) =>
          /\ finished'.op.cycles = finished'.op.fetches
          /\ IF finished'.op.operation.uri # <<>>
             THEN history' = Append(history,
                    [type |-> "output",
                     content |-> finished'.op.operation.uri \o <<"&key=">> \o API_KEY,
                     id |-> Len(history)])
             ELSE history' = Append(history,
                    [type |-> "error",
                     content |-> <<"Video generation completed but no download link found.">>,
                     id |-> Len(history)])]_vars

\* handles done=false, done=false, done=true with the URI: two cycles, then the link
C8_Witness ==
  /\ finished.op.operation = [done |-> TRUE, uri |-> <<"https://host/vid?x=1">>]
  /\ finished.op.cycles = 2
  /\ finished.op.fetches = 2
  /\ history[Len(history)].type = "output"
  /\ history[Len(history)].content = <<"https://host/vid?x=1", "&key=", "K">>

\* C9: When the submission or a re-fetch of generateVideo throws an error whose
\* message contains "Requested entity was not found.", the dispatcher is given
\* the invalid-API-key error instead; every other error of submission or polling,
\* and the no-download-link error, reaches it with its message unchanged.
C9_VideoErrors ==
  [][(/\ finished'.n = finished.n + 1
      /\ finished'.op.pc \in VideoCalls
      /\ finished'.error # <<>>)
     => /\ Len(history') > Len(history)
        /\ history'[Len(history) + 1].type = "error"
        /\ IF includes(finished'.error, <<"Requested entity was not found.">>)
           THEN /\ history'[Len(history) + 1].content =
                     <<"API key is invalid or not found. Please ", "select a valid key", ".">>
                /\ history'[Len(history) + 1].content # finished'.error
           ELSE history'[Len(history) + 1].content = finished'.error
        /\ (finished'.op.operation.done =>
              finished'.error =
                <<"Video generation completed but no download link found.">>)]_vars

\* a re-fetch failed with the not-found error and the invalid-key error was shown
C9_Witness ==
  /\ finished.op.pc = "getVideosOperation"
  /\ finished.error = <<"404 ", "Requested entity was not found.">>
  /\ Len(history) > 2
  /\ history[Len(history) - 1].type = "error"
  /\ history[Len(history) - 1].content =
       <<"API key is invalid or not found. Please ", "select a valid key", ".">>

\* The chat command of this step created a session: startChat returned a session
\* no earlier one is, the System entry follows the Command entry, and the message
\* is sent on the new session.
NewSessionStarted ==
  /\ chatsCreated' = chatsCreated + 1
  /\ chatInstanceRef' = chatsCreated'
  /\ history' = history \o
       << [type |-> "command", content |-> commandLine', id |-> Len(history)],
          [type |-> "system", content |-> <<"New chat session started.">>,
           id |-> Len(history) + 1] >>
  /\ \E t \in DOMAIN ops' \ DOMAIN ops :
       ops'[t].pc = "continueChat" /\ ops'[t].chat = chatInstanceRef'

\* The step is a chat command with a message, and the command before it was chat-reset.
ChatAfterReset ==
  /\ Executed
  /\ submitted > 0
  /\ Switch[commandLine] = c_chat_reset
  /\ Switch[commandLine'] = c_chat
  /\ ParsePrompt(commandLine') # <<>>

\* C10 as stated: chat-reset followed by chat <msg> always creates a new session.
C10_ResetThenChat_Original ==
  [][ChatAfterReset => NewSessionStarted]_vars

\* C10: chat-reset followed by chat <msg> creates a new session whenever the API
\* key is set; without a key startChat throws, no session is created and the
\* command ends with the configuration error.
C10_ResetThenChat ==
  [][ChatAfterReset =>
       IF API_KEY # NoKey
       THEN NewSessionStarted
       ELSE /\ chatInstanceRef' = 0
            /\ chatsCreated' = chatsCreated
            /\ ops' = ops
            /\ history' = history \o
                 << [type |-> "command", content |-> commandLine', id |-> Len(history)],
                    [type |-> "error", content |-> <<"API_KEY environment variable not set.">>,
                     id |-> Len(history) + 1] >>]_vars

\* a second session was created by the chat that followed a chat-reset
C10_Witness ==
  /\ chatInstanceRef = 2
  /\ commandLine = l_chat
  /\ \E t \in DOMAIN ops : ops[t].pc = "continueChat" /\ ops[t].chat = 2
  /\ history[Len(history)].content = <<"New chat session started.">>
  /\ history[Len(history) - 2].content = <<"Chat session reset.">>

\* C11: Between two chat-reset commands at most one chat session is created: only
\* a chat with a message that finds no session creates one, every later chat sends
\* on that session and appends no "New chat session started." entry, and nothing
\* but chat-reset discards the session (not a failed command, clear, or a chat
\* whose send fails).
C11_OneSession ==
  [][/\ chatInstanceRef' # chatInstanceRef =>
          /\ Executed
          /\ \/ Switch[commandLine'] = c_chat_reset /\ chatInstanceRef' = 0
             \/ /\ Switch[commandLine'] = c_chat
                /\ ParsePrompt(commandLine') # <<>>
                /\ chatInstanceRef = 0
                /\ chatsCreated' = chatsCreated + 1
                /\ chatInstanceRef' = chatsCreated'
     /\ chatsCreated' # chatsCreated => chatInstanceRef = 0 /\ chatInstanceRef' # 0
     /\ (/\ Executed
         /\ Switch[commandLine'] = c_chat
         /\ ParsePrompt(commandLine') # <<>>
         /\ chatInstanceRef # 0)
        => /\ chatInstanceRef' = chatInstanceRef
           /\ history' = Append(history,
                [type |-> "command", content |-> commandLine', id |-> Len(history)])
           /\ \E t \in DOMAIN ops' \ DOMAIN ops :
                ops'[t].pc = "continueChat" /\ ops'[t].chat = chatInstanceRef]_vars

\* the first chat's send failed, and the second chat is sent on the same session
C11_Witness ==
  /\ chatsCreated = 1
  /\ chatInstanceRef = 1
  /\ finished.op.pc = "continueChat"
  /\ finished.error = <<"Quota exceeded.">>
  /\ \E t \in DOMAIN ops : ops[t].pc = "continueChat" /\ ops[t].chat = 1
  /\ history[Len(history)].type = "command"
  /\ history[Len(history) - 1].type = "error"

DescribeCalls == {"readAsDataURL", "describeImage"}

\* the continuations that read or describe a selected file
Describing == {t \in DOMAIN ops : ops[t].pc \in DescribeCalls}

\* Idle, AwaitingFile (chooser open, or closed without a file) and Processing
DescribePhase ==
  CASE pendingFileCommand = NoPending /\ ~fileDialog /\ Describing = {} -> "Idle"
    [] pendingFileCommand # NoPending /\ Describing = {} -> "AwaitingFile"
    [] pendingFileCommand # NoPending /\ ~fileDialog /\ Cardinality(Describing) = 1
         -> "Processing"
    [] OTHER -> "none"

\* C12: The describe flow only moves Idle -> AwaitingFile -> Processing -> Idle.
\* describe records the pending upload with the given prompt (the default prompt
\* for an empty argument) and appends the System entry asking for a file; a file
\* selected while an upload is pending is processed with the recorded prompt: the
\* file-name System entry, then exactly one Output or Error entry, after which no
\* upload is pending and busy is false.
C12_DescribeFlow ==
  [][/\ DescribePhase' # "none"
     /\ <<DescribePhase, DescribePhase'>> \in
          { <<"Idle", "Idle">>, <<"Idle", "AwaitingFile">>,
            <<"AwaitingFile", "AwaitingFile">>, <<"AwaitingFile", "Processing">>,
            <<"Processing", "Processing">>, <<"Processing", "Idle">> }
     /\ (Executed /\ Switch[commandLine'] = c_describe) =>
          /\ pendingFileCommand'.prompt =
               (IF ParsePrompt(commandLine') = <<>>
                THEN <<"What is in this image?">>
                ELSE ParsePrompt(commandLine'))
          /\ history' = history \o
               << [type |-> "command", content |-> commandLine', id |-> Len(history)],
                  [type |-> "system",
                   content |-> <<"Please select an image file to describe.">>,
                   id |-> Len(history) + 1] >>
     /\ \A t \in Describing' :
          /\ t \notin Describing =>
               ops'[t].pc = "readAsDataURL" /\ ops'[t].prompt = pendingFileCommand.prompt
          /\ (t \in Describing /\ ops'[t].pc # ops[t].pc) =>
               /\ ops[t].pc = "readAsDataURL"
               /\ ops'[t].prompt = ops[t].prompt
               /\ history' = Append(history,
                    [type |-> "system",
                     content |-> <<"Describing image: ">> \o ops[t].file.name \o <<"...">>,
                     id |-> Len(history)])
     /\ (finished'.n = finished.n + 1 /\ finished'.op.pc \in DescribeCalls) =>
          /\ Len(history') > Len(history)
          /\ SubSeq(history', 1, Len(history)) = history
          /\ history'[Len(history')].type =
               (IF finished'.error = <<>> THEN "output" ELSE "error")
          /\ Cardinality({i \in (Len(history) + 1)..Len(history') :
                            history'[i].type \in {"output", "error"}}) = 1
          /\ pendingFileCommand' = NoPending
          /\ ~isLoading']_vars

\* C13: When the geolocation lookup of a maps command fails, exactly one Error
\* entry reporting the failure message is appended, busy becomes false and the
\* grounded search is not called for that command; the search is called only
\* from a successful lookup, after the System entry with the coordinates (four
\* decimals) has been appended.
C13_GeolocationFirst ==
  [][/\ (/\ finished'.n = finished.n + 1
         /\ finished'.op.pc = "getCurrentPosition"
         /\ finished'.error \in GeoErrors)
        => /\ history' = Append(history,
                [type |-> "error",
                 content |-> <<"Geolocation failed: ">> \o finished'.error,
                 id |-> Len(history)])
           /\ ~isLoading'
           /\ \E t \in DOMAIN ops :
                /\ ops[t] = finished'.op
                /\ ops' = [i \in DOMAIN ops \ {t} |-> ops[i]]
     /\ \A t \in DOMAIN ops' :
          (ops'[t].pc = "searchWithMaps" /\ (t \notin DOMAIN ops \/ ops[t].pc # "searchWithMaps"))
          => /\ t \in DOMAIN ops
             /\ ops[t].pc = "getCurrentPosition"
             /\ history' = Append(history,
                  [type |-> "system",
                   content |-> <<"Location found: ", "3", "7", ".", "4", "2", "2", "2", ", ",
                                 "-", "1", "2", "2", ".", "0", "8", "4", "1">>,
                   id |-> Len(history)])]_vars

\* the lookup of "maps q" was refused: the Error entry is last and busy is false
C13_Witness ==
  /\ commandLine = l_maps
  /\ finished.op.pc = "getCurrentPosition"
  /\ finished.error = <<"User denied Geolocation">>
  /\ history[Len(history)].type = "error"
  /\ history[Len(history)].content = <<"Geolocation failed: ", "User denied Geolocation">>
  /\ ~isLoading
  /\ ops = <<>>

\* C14: A line whose first token (the command executeCommand took from it) is not
\* a known command name in any letter case appends the Error entry
\* "Command not found: <token>. Type 'help' for a list of commands.", starts
\* no operation, leaves the chat session and the pending upload as they were, and
\* busy is false afterwards.
C14_UnknownCommand ==
  [][(Executed /\ Switch[commandLine'] \notin KnownCommands)
     => /\ history' = history \o
             << [type |-> "command", content |-> commandLine', id |-> Len(history)],
                [type |-> "error",
                 content |-> <<"Command not found: ">> \o ParseCommand(commandLine')
                               \o <<". Type 'help' for a list of commands.">>,
                 id |-> Len(history) + 1] >>
        /\ ops' = ops
        /\ spawned' = spawned
        /\ chatInstanceRef' = chatInstanceRef
        /\ chatsCreated' = chatsCreated
        /\ pendingFileCommand' = pendingFileCommand
        /\ fileDialog' = fileDialog
        /\ ~isLoading']_vars

\* "frobnicate" was answered with its Command not found entry
C14_Witness ==
  /\ commandLine = l_unknown
  /\ history[Len(history)].type = "error"
  /\ history[Len(history)].content =
       <<"Command not found: ", "f", "r", "o", "b", "n", "i", "c", "a", "t", "e",
         ". Type 'help' for a list of commands.">>
  /\ ~isLoading

\* The parse the specification describes: the line is split at its first run of
\* white space into the command and the argument.
RECURSIVE TakeWord(_)
TakeWord(s) ==
  IF s = <<>> \/ Head(s) \in WhiteSpace THEN <<>> ELSE <<Head(s)>> \o TakeWord(Tail(s))

FirstRunSplit ==
  [line \in UNION Sessions |->
     LET s == trim(line)
         w == TakeWord(s)
     IN  [command |-> w, argument |-> trimStart(SubSeq(s, Len(w) + 1, Len(s)))]]

\* C17: executeCommand splits every line at its first white-space run: the text
\* before it is the command, matched case-insensitively in every part of the
\* command's handling (the dispatch and the decision to keep busy set), and the
\* remainder is the argument, verbatim; several spaces or a tab separate as one.
C17_Parsing ==
  [][Executed =>
       LET cmd == toLowerCase(FirstRunSplit[commandLine'].command)
           arg == FirstRunSplit[commandLine'].argument
       IN  /\ \A t \in DOMAIN ops' \ DOMAIN ops :
                toLowerCase(ops'[t].command) = cmd /\ ops'[t].prompt = arg
           /\ cmd \in KnownCommands =>
                \A i \in (Len(history) + 1)..Len(history') :
                  ~(history'[i].type = "error"
                    /\ Head(history'[i].content) = "Command not found: ")
           /\ (cmd = c_describe \/ (cmd = c_maps /\ arg # <<>>)) => isLoading']_vars

\* C15: When a stream fails after k chunks, the log then holds the stream's
\* Output entry with exactly the k chunks delivered, directly followed by exactly
\* one Error entry, and busy is false.
C15_StreamFailure ==
  [][(/\ finished'.n = finished.n + 1
      /\ finished'.op.pc = "generateTextStream"
      /\ finished'.error # <<>>)
     => /\ Len(history') = finished'.op.entry + 1
        /\ history'[finished'.op.entry] =
             [type |-> "output", content |-> finished'.op.sent,
              id |-> finished'.op.entry - 1]
        /\ history'[finished'.op.entry + 1] =
             [type |-> "error", content |-> finished'.error, id |-> finished'.op.entry]
        /\ ~isLoading']_vars

\* the video was submitted by this continuation
VideoWasSubmitted(op) == op.pc \in {"generateVideos", "setTimeout", "getVideosOperation"}

\* a submitted video went through the key selection exactly when its host was
\* present and reported no selected key
KeySelectionAsRequired(op) ==
  VideoWasSubmitted(op) => (op.selected <=> (op.aistudio /\ ~op.hasKey))

\* C16: generateVideo runs the key selection, to its end, before the submission
\* exactly when window.aistudio is present and reports no selected key; otherwise
\* it submits without the key selection; no submission precedes the end of a key
\* selection.
C16_KeySelectionFirst ==
  /\ \A t \in DOMAIN ops :
       /\ KeySelectionAsRequired(ops[t])
       /\ ops[t].pc = "openSelectKey" =>
            (ops[t].aistudio /\ ~ops[t].hasKey /\ ~ops[t].selected)
  /\ KeySelectionAsRequired(finished.op)

\* a video submitted after the host reported no key and the key selection ended
C16_Witness ==
  \E t \in DOMAIN ops :
    /\ ops[t].pc = "generateVideos"
    /\ ops[t].aistudio
    /\ ~ops[t].hasKey
    /\ ops[t].selected

\* C18: A video command that fails with the invalid-API-key error appends the
\* Error entry directly followed by the System guidance entry; the guidance entry
\* appears only directly after such an Error entry; and the next video command,
\* on a host that offers the key selection, runs it before it submits.
C18_RetryReselectsKey ==
  [][/\ (/\ finished'.n = finished.n + 1
         /\ finished'.op.pc \in VideoCalls
         /\ includes(finished'.error, <<"Requested entity was not found.">>))
        => history' = history \o
             << [type |-> "error",
                 content |-> <<"API key is invalid or not found. Please ",
                               "select a valid key", ".">>,
                 id |-> Len(history)],
                [type |-> "system",
                 content |-> <<"Please try the 'video' command again to re-trigger API key selection.">>,
                 id |-> Len(history) + 1] >>
     /\ \A i \in 1..Len(history') :
          history'[i].content =
            <<"Please try the 'video' command again to re-trigger API key selection.">>
          => /\ i > 1
             /\ history'[i - 1].type = "error"
             /\ history'[i - 1].content =
                  <<"API key is invalid or not found. Please ", "select a valid key", ".">>
     /\ (/\ finished.op.pc \in VideoCalls
         /\ finished.op.aistudio
         /\ includes(finished.error, <<"Requested entity was not found.">>))
        => \A t \in DOMAIN ops' :
             (/\ ops'[t].pc = "generateVideos"
              /\ (t \notin DOMAIN ops \/ ops[t].pc # "generateVideos")
              /\ ops'[t].aistudio)
             => ops'[t].selected]_vars

IsPrefix(a, b) == Len(a) <= Len(b) /\ SubSeq(b, 1, Len(a)) = a

C20_PollingUnbounded ==
  [][/\ \A t \in DOMAIN ops :
          VideoWasSubmitted(ops[t]) =>
            \/ t \in DOMAIN ops' /\ VideoWasSubmitted(ops'[t])
            \/ /\ t \notin DOMAIN ops'
               /\ finished'.n = finished.n + 1
               /\ finished'.op.operation.done \/ finished'.error \in VideoErrors
     /\ \A t \in DOMAIN ops' : VideoWasSubmitted(ops'[t]) => isLoading'
     /\ (finished'.n = finished.n + 1 /\ VideoWasSubmitted(finished'.op)) =>
          /\ Len(history') > Len(history)
          /\ SubSeq(history', 1, Len(history)) = history
          /\ Cardinality({i \in (Len(history) + 1)..Len(history') :
                            history'[i].type \in {"output", "error"}}) = 1
          /\ ~isLoading'
          /\ \E t \in DOMAIN ops : ops' = [i \in DOMAIN ops \ {t} |-> ops[i]]]_vars

\* The first call each operation makes to the generative API.
ApiCalls ==
  {"generateText", "generateTextStream", "continueChat", "getJsonRecipes",
   "demonstrateFunctionCalling", "searchWithGoogle", "searchWithMaps", "describeImage",
   "generateImage", "generateVideos"}

\* The step makes continuation t enter a call to the generative API.
CallMade(t) ==
  /\ t \in DOMAIN ops'
  /\ ops'[t].pc \in ApiCalls
  /\ (t \in DOMAIN ops => ops[t].pc # ops'[t].pc)

\* The commands whose case invokes its operation before executeCommand suspends.
DirectCommands == {c_text, c_stream, c_chat, c_json, c_function_call, c_search, c_image}

\* The step executes a line whose case invokes its operation at once.
InvokedDirectly ==
  /\ Executed
  /\ Switch[commandLine'] \in DirectCommands
  /\ Switch[commandLine'] \in RequiredArgument => ParsePrompt(commandLine') # <<>>

\* The step is a callback or a continuation invoking its operation: the geolocation
\* success callback, reader.onloadend, or generateVideo past its key selection.
InvokedLater ==
  /\ finished'.n = finished.n + 1
  /\ \/ /\ finished'.op.pc = "getCurrentPosition"
        /\ \E position \in Positions :
             Appends([type |-> "system", content |-> LocationFound(position.coords),
                      id |-> Len(history)])
     \/ finished'.op.pc = "readAsDataURL"
     \/ finished'.op.pc = "hasSelectedApiKey" /\ finished'.op.hasKey
     \/ finished'.op.pc = "openSelectKey" /\ finished'.op.selected

\* C21: When the API key is absent at the time an operation is invoked, every
\* operation (text, stream, chat including a chat on an already created session,
\* json, function-call, search, maps, describe, image, video) fails with the
\* configuration error "API_KEY environment variable not set." and makes no call
\* to the external generative API.  The key is read where the client is obtained:
\* for video, after the key selection.
C21_NoKeyNoCall ==
  [][/\ \A t \in DOMAIN ops' : CallMade(t) => API_KEY' # NoKey
     /\ (InvokedDirectly /\ API_KEY = NoKey) =>
          /\ ops' = ops
          /\ history'[Len(history')].type = "error"
          /\ history'[Len(history')].content = <<"API_KEY environment variable not set.">>
     /\ (InvokedLater /\ API_KEY' = NoKey) =>
          finished'.error = <<"API_KEY environment variable not set.">>]_vars

\* The continuation or callback that takes the step.
Acting(t) == t \in DOMAIN ops /\ (t \notin DOMAIN ops' \/ ops'[t] # ops[t])

\* The log holds, before position n, the Command entry of a line that dispatched
\* to this command.
CommandEntryBefore(command, n) ==
  \E i \in 1..(n - 1) :
    /\ i <= Len(history')
    /\ history'[i].type = "command"
    /\ Switch[history'[i].content] = toLowerCase(command)

\* C22: Every submitted input line, recognised or not, appends exactly one
\* Command entry holding the raw input line and sets busy=true before any
\* operation is invoked, and every other entry produced by that command comes
\* after its Command entry in the log (for clear the Command entry is removed by
\* the reset).  Whether busy is still true when a maps or describe line returns
\* is C2's subject.
C22_CommandEntryFirst ==
  [][/\ (Executed /\ Switch[commandLine'] # c_clear) =>
          /\ Appends([type |-> "command", content |-> commandLine', id |-> Len(history)])
          /\ \A i \in (Len(history) + 2)..Len(history') : history'[i].type # "command"
     /\ (Executed /\ Switch[commandLine'] = c_clear) =>
          \A i \in 1..Len(history') : history'[i].type # "command"
     /\ (Executed /\ ops' # ops /\ ~Deferred(commandLine')) => isLoading'
     /\ \A t \in DOMAIN ops :
          (Acting(t) /\ Len(history') > Len(history)) =>
            /\ SubSeq(history', 1, Len(history)) = history
            /\ CommandEntryBefore(ops[t].command, Len(history) + 1)]_vars

\* C23: In every reachable state the ids of the history entries are pairwise
\* distinct and strictly increasing along the log, each entry's id being its
\* index in the log (welcome entry id 0), also after clear and after appends made
\* from asynchronous callbacks.
C23_IdsAreIndices ==
  /\ \A i \in 1..Len(history) : history[i].id = i - 1
  /\ \A i, j \in 1..Len(history) : i < j => history[i].id < history[j].id
  /\ \A i, j \in 1..Len(history) : i # j => history[i].id # history[j].id
  /\ history[1].id = 0 /\ history[1].type = "system"

\* The log was cleared while a geolocation request was pending, and the success
\* callback and the API reply have since appended their entries.
C23_Witness ==
  /\ commandLine = l_clear
  /\ finished.n >= 1
  /\ finished.op.pc = "searchWithMaps"
  /\ Len(history) >= 3
  /\ \E position \in Positions :
       history[2] = [type |-> "system", content |-> LocationFound(position.coords), id |-> 1]
  /\ history[3].id = 2

====
